---- MODULE Spec2Model ----
(***************************************************************************)
(* arm_vcpu: the decode of a guest trap into an exit reason, the switch of  *)
(* a physical CPU into and out of virtualization, and run().               *)
(*                                                                         *)
(* A vCPU runs its guest until the hardware delivers an exception to EL2.  *)
(* The vector stub saves the guest registers into the TrapFrame, and       *)
(* handle_exception_sync (src/src/exception.rs) turns the syndrome         *)
(* registers and the frame into an AxResult<AxVCpuExitReason>.             *)
(*                                                                         *)
(* 64-bit registers are kept at their width: a u64 is a tuple of four      *)
(* 16-bit limbs, least significant first.                                  *)
(*                                                                         *)
(* There are four specifications over one set of variables:                *)
(*   Spec      one trap of a fresh vCPU and its decode (exception.rs);     *)
(*   SpecPcpu  hardware_enable / hardware_disable on each CPU (pcpu.rs);   *)
(*   SpecRun   run() step by step on two CPUs, each with its own vCPU      *)
(*             (vcpu.rs);                                                  *)
(*   SpecOnce  the registration latch under concurrent callers (lib.rs).   *)
(* Each specification leaves the variables of the others at their initial  *)
(* values.                                                                 *)
(***************************************************************************)
EXTENDS Integers, Sequences, FiniteSets, TLC

VARIABLES
    pc,         \* where the vCPU is: "ready", "trapped", "returned", "panicked",
                \* and for an IRQ "irq_trapped", "irq_returned"
    ctx,        \* Aarch64VCpu.ctx, the guest TrapFrame
    esr,        \* ESR_EL2, as its fields EC, IL and ISS
    far,        \* FAR_EL2
    hpfar,      \* HPFAR_EL2
    stage2,     \* whether the trap taken is a stage-2 abort
    ret,        \* what handle_exception_sync returned to run()
    panic_msg,  \* the message of the panic that halted the core, "" if none
    ctx0,       \* history: the TrapFrame as the vector stub saved it at the trap
    \* -- each physical CPU --
    sysreg,     \* the system registers of each CPU, by name
    ORI_EXCEPTION_VECTOR_BASE,  \* the per-CPU cell of pcpu.rs
    HOST_SP_EL0,                \* the per-CPU cell of vcpu.rs
    pcpu_calls, \* history: the hardware_enable/hardware_disable calls of each CPU
    pcpu_hist,  \* history: each CPU's registers before its last such call, and
                \* its VBAR_EL2 before its first hardware_enable
    sysreg_boot,\* history: each CPU's registers at boot
    \* -- run(), one vCPU per CPU --
    rpc,        \* each CPU's position in RunProgram, 0 outside run()
    rret,       \* what each CPU's last run() returned, or the panic that halted it
    vcpu,       \* each vCPU's host_stack_top and guest_system_regs
    core,       \* each CPU's EL2 stack pointer, callee-saved registers and x0
    stack,      \* each CPU's host stack, the last pushed item first
    hist,       \* history of each CPU's run() calls
    \* -- the registration latch --
    INIT,       \* the spin::Once of lib.rs
    registered, \* how often register_lower_aarch64_synchronous_handler ran
    opc,        \* each CPU's position in do_register_lower_aarch64_synchronous_handler
    oret        \* history: what each CPU's calls returned

vars == <<pc, ctx, esr, far, hpfar, stage2, ret, panic_msg, ctx0>>

pcpuVars == <<ORI_EXCEPTION_VECTOR_BASE, pcpu_calls, pcpu_hist, sysreg_boot>>

runVars == <<HOST_SP_EL0, rpc, rret, vcpu, core, stack, hist>>

onceVars == <<INIT, registered, opc, oret>>

allvars == <<vars, sysreg, pcpuVars, runVars, onceVars>>

---------------------------------------------------------------------------
(* u64 arithmetic on 16-bit limbs.                                         *)

Limb == 2^16

\* A u64 written most significant limb first, as in 0x0000_0000_8400_0008.
W(a3, a2, a1, a0) == <<a0, a1, a2, a3>>

Zero64 == W(0, 0, 0, 0)

\* A small natural (below 2^31) as a u64.
FromNat(n) == W(0, 0, n \div Limb, n % Limb)

U64 == [1..4 -> 0..(Limb - 1)]

Lt64(x, y) == \E i \in 1..4 : x[i] < y[i] /\ \A j \in (i + 1)..4 : x[j] = y[j]

Le64(x, y) == x = y \/ Lt64(x, y)

\* x + y at 64 bits: the wrapped sum and the carry out of bit 63.
Add64(x, y) ==
    LET s1 == x[1] + y[1]
        s2 == x[2] + y[2] + (s1 \div Limb)
        s3 == x[3] + y[3] + (s2 \div Limb)
        s4 == x[4] + y[4] + (s3 \div Limb)
    IN  [val |-> <<s1 % Limb, s2 % Limb, s3 % Limb, s4 % Limb>>,
         carry |-> s4 \div Limb]

\* x - y at 64 bits, for y <= x.
Sub64(x, y) ==
    LET d1 == x[1] - y[1]
        b1 == IF d1 < 0 THEN 1 ELSE 0
        d2 == x[2] - y[2] - b1
        b2 == IF d2 < 0 THEN 1 ELSE 0
        d3 == x[3] - y[3] - b2
        b3 == IF d3 < 0 THEN 1 ELSE 0
        d4 == x[4] - y[4] - b3
    IN  <<d1 % Limb, d2 % Limb, d3 % Limb, d4 % Limb>>

\* x << 8 at 64 bits.
Shl8(x) ==
    <<(x[1] * 256) % Limb,
      ((x[2] * 256) % Limb) + (x[1] \div 256),
      ((x[3] * 256) % Limb) + (x[2] \div 256),
      ((x[4] * 256) % Limb) + (x[3] \div 256)>>

---------------------------------------------------------------------------
(* AxResult<AxVCpuExitReason>.                                             *)

NoRet == [tag |-> "None"]

Ok(reason) == [tag |-> "Ok", reason |-> reason]

Err(e) == [tag |-> "Err", err |-> e]

Panic(msg) == [tag |-> "Panic", msg |-> msg]

SystemDown == [kind |-> "SystemDown"]

Hypercall(nr, args) == [kind |-> "Hypercall", nr |-> nr, args |-> args]

MmioRead(addr, width, reg, reg_width) ==
    [kind |-> "MmioRead", addr |-> addr, width |-> width, reg |-> reg,
     reg_width |-> reg_width]

MmioWrite(addr, width, data) ==
    [kind |-> "MmioWrite", addr |-> addr, width |-> width, data |-> data]

\* axvcpu::AccessWidth::try_from(usize).
AccessWidth_try_from(n) ==
    CASE n = 1 -> [ok |-> TRUE, val |-> "Byte"]
      [] n = 2 -> [ok |-> TRUE, val |-> "Word"]
      [] n = 4 -> [ok |-> TRUE, val |-> "Dword"]
      [] n = 8 -> [ok |-> TRUE, val |-> "Qword"]
      [] OTHER -> [ok |-> FALSE, val |-> "none"]

\* axvcpu::AccessWidth::size().
AccessWidth_size(w) ==
    CASE w = "Byte"  -> 1
      [] w = "Word"  -> 2
      [] w = "Dword" -> 4
      [] w = "Qword" -> 8

---------------------------------------------------------------------------
(* TrapFrame: gpr[0..=30], sp_el0, elr, spsr.                              *)

TrapFrame_default ==
    [gpr |-> [i \in 0..30 |-> Zero64], sp_el0 |-> Zero64, elr |-> Zero64,
     spsr |-> Zero64]

exception_pc(tf) == tf.elr

set_exception_pc(tf, pc_) == [tf EXCEPT !.elr = pc_]

\* TrapFrame::gpr(index): x0..x30 from the frame, index 31 is the zero register.
gpr(tf, index) == IF index \in 0..30 THEN tf.gpr[index] ELSE Zero64

---------------------------------------------------------------------------
(* exception_utils: the syndrome decoder over ESR_EL2, FAR_EL2, HPFAR_EL2. *)

exception_class_value == esr.EC

\* ESR_EL2.read_as_enum(EC): None for a value the enum does not name.
exception_class ==
    CASE esr.EC = 36 -> "DataAbortLowerEL"
      [] esr.EC = 32 -> "InstrAbortLowerEL"
      [] esr.EC = 22 -> "HVC64"
      [] esr.EC = 1  -> "TrappedWFIorWFE"
      [] OTHER       -> "None"

exception_iss == esr.ISS

\* HPFAR_EL2[39:4] << 8 | FAR_EL2[11:0]; BadState outside a stage-2 abort.
exception_fault_addr ==
    IF ~stage2
    THEN [ok |-> FALSE, err |-> "BadState"]
    ELSE LET fipa == <<hpfar[1] - (hpfar[1] % 16), hpfar[2], hpfar[3] % 256, 0>>
             hi   == Shl8(fipa)
         IN  [ok |-> TRUE,
              val |-> <<hi[1] - (hi[1] % 4096) + (far[1] % 4096), hi[2], hi[3], hi[4]>>]

\* 2 if ESR.IL = 0, else 4.
exception_next_instruction_step == 2 + 2 * esr.IL

\* ISV, ISS bit 24.
exception_data_abort_handleable == (exception_iss \div 2^24) % 2 = 1

\* DFSC, ISS bits 5:0: 0b0001LL is a translation fault.
exception_data_abort_is_translate_fault == ((exception_iss % 64) \div 4) = 1

\* DFSC 0b0011LL is a permission fault.
exception_data_abort_is_permission_fault == ((exception_iss % 64) \div 4) = 3

\* SAS, ISS bits 23:22: the access is 1 << SAS bytes.
exception_data_abort_access_width == 2 ^ ((exception_iss \div 2^22) % 4)

\* WnR, ISS bit 6.
exception_data_abort_access_is_write == (exception_iss \div 64) % 2 = 1

\* SRT, ISS bits 20:16.
exception_data_abort_access_reg == (exception_iss \div 2^16) % 32

\* SF, ISS bit 15: a 64-bit register if set, else 32-bit.
exception_data_abort_access_reg_width == 4 + 4 * ((exception_iss \div 2^15) % 2)

---------------------------------------------------------------------------
(* exception.rs: the exit decoder.                                         *)

PSCI_FN_RANGE_32 == [start |-> W(0, 0, \h8400, \h0000), end |-> W(0, 0, \h8400, \h001F)]

\* Mutant: the 64-bit range written with an exclusive end (0xC400_0000..0xC400_001F).
PSCI_FN_RANGE_64_exclusive ==
    [start |-> W(0, 0, \hC400, \h0000), end |-> W(0, 0, \hC400, \h001E)]

PSCI_FN_RANGE_64 == [start |-> W(0, 0, \hC400, \h0000), end |-> W(0, 0, \hC400, \h001F)]

PSCI_FN_SYSTEM_OFF == 8

\* RangeInclusive::contains.
RangeContains(r, x) == Le64(r.start, x) /\ Le64(x, r.end)

\* Mutant: the 64-bit branch subtracts the start of the 32-bit range.
psci_fn_offset_wrong_base(fn_) ==
    IF RangeContains(PSCI_FN_RANGE_32, fn_)
    THEN [some |-> TRUE, val |-> Sub64(fn_, PSCI_FN_RANGE_32.start)]
    ELSE IF RangeContains(PSCI_FN_RANGE_64, fn_)
    THEN [some |-> TRUE, val |-> Sub64(fn_, PSCI_FN_RANGE_32.start)]
    ELSE [some |-> FALSE, val |-> Zero64]

\* The offset of a PSCI function id in its range, None outside both ranges.
psci_fn_offset(fn_) ==
    IF RangeContains(PSCI_FN_RANGE_32, fn_)
    THEN [some |-> TRUE, val |-> Sub64(fn_, PSCI_FN_RANGE_32.start)]
    ELSE IF RangeContains(PSCI_FN_RANGE_64, fn_)
    THEN [some |-> TRUE, val |-> Sub64(fn_, PSCI_FN_RANGE_64.start)]
    ELSE [some |-> FALSE, val |-> Zero64]

psci_result(fn_offset) ==
    IF fn_offset = FromNat(PSCI_FN_SYSTEM_OFF)
    THEN Ok(SystemDown)
    ELSE Err("Unsupported")

\* Some(result) for a PSCI call, None otherwise; the frame is only read.
handle_psci_call(c) ==
    LET fn_offset == psci_fn_offset(c.gpr[0])
    IN  IF fn_offset.some
        THEN [some |-> TRUE, val |-> psci_result(fn_offset.val)]
        ELSE [some |-> FALSE, val |-> NoRet]

\* Mutant: the arguments taken from x0..x5.
hypercall_exit_args_from_x0(c) ==
    Ok(Hypercall(c.gpr[0],
                 <<c.gpr[0], c.gpr[1], c.gpr[2], c.gpr[3], c.gpr[4], c.gpr[5]>>))

\* The generic hypercall exit: nr from x0, args from x1..x6.
hypercall_exit(c) ==
    Ok(Hypercall(c.gpr[0],
                 <<c.gpr[1], c.gpr[2], c.gpr[3], c.gpr[4], c.gpr[5], c.gpr[6]>>))

\* Mutant: the pc advanced by 4 whatever the instruction length.
advance_pc_by_four(context_frame) ==
    Add64(exception_pc(context_frame), FromNat(4))

\* elr + exception_next_instruction_step(), a usize addition.
advance_pc(context_frame) ==
    Add64(exception_pc(context_frame), FromNat(exception_next_instruction_step))

\* Mutant: the translate-fault test inverted.
data_abort_fault_check_inverted ==
    IF ~exception_data_abort_handleable
    THEN Panic("Core data abort not handleable")
    ELSE IF exception_data_abort_is_translate_fault
    THEN IF exception_data_abort_is_permission_fault
         THEN Err("Unsupported")
         ELSE Panic("Core data abort is not translate fault")
    ELSE NoRet

\* Mutant: no permission-fault branch, every non-translate fault panics.
data_abort_fault_check_no_permission ==
    IF ~exception_data_abort_handleable
    THEN Panic("Core data abort not handleable")
    ELSE IF ~exception_data_abort_is_translate_fault
    THEN Panic("Core data abort is not translate fault")
    ELSE NoRet

\* Mutant: the handleable (ISV) test left out.
data_abort_fault_check_no_isv ==
    IF ~exception_data_abort_is_translate_fault
    THEN IF exception_data_abort_is_permission_fault
         THEN Err("Unsupported")
         ELSE Panic("Core data abort is not translate fault")
    ELSE NoRet

\* The checks between the width decode and the exit reason: Panic, Err, or
\* NoRet when the abort is a handleable translate fault.
data_abort_fault_check ==
    IF ~exception_data_abort_handleable
    THEN Panic("Core data abort not handleable")
    ELSE IF ~exception_data_abort_is_translate_fault
    THEN IF exception_data_abort_is_permission_fault
         THEN Err("Unsupported")
         ELSE Panic("Core data abort is not translate fault")
    ELSE NoRet

\* Mutant: the direction test inverted.
mmio_exit_swapped(context_frame, addr, width, is_write, reg, reg_width) ==
    IF ~is_write
    THEN Ok(MmioWrite(addr, width, gpr(context_frame, reg)))
    ELSE Ok(MmioRead(addr, width, reg, reg_width))

mmio_exit(context_frame, addr, width, is_write, reg, reg_width) ==
    IF is_write
    THEN Ok(MmioWrite(addr, width, gpr(context_frame, reg)))
    ELSE Ok(MmioRead(addr, width, reg, reg_width))

\* handle_data_abort that advances elr before it asks for the fault address.
handle_data_abort_advance_first(context_frame, overflow_checks) ==
    LET fa == exception_fault_addr
        val == advance_pc(context_frame)
    IN  IF val.carry # 0 /\ overflow_checks
        THEN [frame |-> context_frame,
              res |-> Panic("attempt to add with overflow")]
        ELSE [frame |-> set_exception_pc(context_frame, val.val),
              res |-> IF ~fa.ok THEN Err(fa.err) ELSE NoRet]

\* overflow_checks: whether the build panics on integer overflow (debug) or
\* wraps (release).
handle_data_abort(context_frame, overflow_checks) ==
    LET fa == exception_fault_addr
    IN  IF ~fa.ok
        THEN [frame |-> context_frame, res |-> Err(fa.err)]
        ELSE
        LET addr         == fa.val
            access_width == exception_data_abort_access_width
            is_write     == exception_data_abort_access_is_write
            reg          == exception_data_abort_access_reg
            reg_width    == exception_data_abort_access_reg_width
            val          == advance_pc(context_frame)
        IN  IF val.carry # 0 /\ overflow_checks
            THEN [frame |-> context_frame,
                  res |-> Panic("attempt to add with overflow")]
            ELSE
            LET frame1 == set_exception_pc(context_frame, val.val)
                width  == AccessWidth_try_from(access_width)
                rwidth == AccessWidth_try_from(reg_width)
                check  == data_abort_fault_check
            IN  [frame |-> frame1,
                 res |->
                    IF ~width.ok THEN Err("InvalidInput")
                    ELSE IF ~rwidth.ok THEN Err("InvalidInput")
                    ELSE IF check # NoRet THEN check
                    ELSE mmio_exit(frame1, addr, width.val, is_write, reg,
                                   rwidth.val)]

\* The arm for every other exception class: the panic's arguments are
\* evaluated first, and exception_fault_addr()? returns its error.
unhandled_class(c) ==
    LET fa == exception_fault_addr
    IN  IF ~fa.ok
        THEN [frame |-> c, res |-> Err(fa.err)]
        ELSE [frame |-> c, res |-> Panic("handler not presents for EC")]

\* handle_exception_sync that steps over the hvc instruction.
handle_exception_sync_hvc_advances(c, overflow_checks) ==
    CASE exception_class = "DataAbortLowerEL" ->
            handle_data_abort(c, overflow_checks)
      [] exception_class = "HVC64" ->
            LET psci == handle_psci_call(c)
            IN  [frame |-> set_exception_pc(c, advance_pc(c).val),
                 res |-> IF psci.some THEN psci.val ELSE hypercall_exit(c)]
      [] OTHER -> unhandled_class(c)

handle_exception_sync(c, overflow_checks) ==
    CASE exception_class = "DataAbortLowerEL" ->
            handle_data_abort(c, overflow_checks)
      [] exception_class = "HVC64" ->
            LET psci == handle_psci_call(c)
            IN  [frame |-> c,
                 res |-> IF psci.some THEN psci.val ELSE hypercall_exit(c)]
      [] OTHER -> unhandled_class(c)

---------------------------------------------------------------------------
(* The guest state a trap can present.                                     *)

\* How many different fillings of the guest registers are tried.
NumPatterns == 2

\* x0 at an HVC: both PSCI ranges, their neighbours on either side, small
\* hypercall numbers, and ids that match a PSCI id only in their low 32 bits.
Gpr0Values ==
    {W(0, 0, \h8400, k) : k \in 0..32}
    \cup {W(0, 0, \hC400, k) : k \in 0..32}
    \cup {W(0, 0, \h83FF, \hFFFF), W(0, 0, \hC3FF, \hFFFF)}
    \cup {Zero64, FromNat(8), FromNat(42), W(1, 0, \h8400, 8),
          W(\hFFFF, \hFFFF, \hC400, 8), W(\hFFFF, \hFFFF, \hFFFF, \hFFFF)}

\* The guest pc at the trap: a kernel-image address and the last instruction
\* slot of the address space.
ElrValues == {W(0, 0, \h4008, 0), W(\hFFFF, \hFFFF, \hFFFF, \hFFFC)}

\* DFSC of a data abort: translation (level 1, level 3), access flag, permission.
DfscValues == {5, 7, 9, 13}

\* EC values other than DataAbortLowerEL and HVC64: an instruction abort, a
\* trapped WFI, and a value the EC enum does not name.
OtherEcValues == {32, 1, 63}

\* The frame the vector stub saves: distinct values in x0..x30.
GuestFrame(p, e) ==
    [gpr |-> [i \in 0..30 |-> W(\h1111 * p, 0, p + 1, i)],
     sp_el0 |-> W(0, 0, p, \h1000), elr |-> e, spsr |-> FromNat(\h3C5)]

GuestFar(p) == W(\hFFFF, p, 0, \h0ABC + (\h1000 * p))

GuestHpfar(p) == W(0, \hFF * p, \h10 + p, 15 * p)

---------------------------------------------------------------------------
(* Each physical CPU: its system registers, hardware_enable and            *)
(* hardware_disable (src/src/pcpu.rs).                                     *)

Cpus == {0, 1}

\* The address of the crate's EL2 vector table.
exception_vector_base_vcpu == W(0, 0, \h4020, \h0800)

\* HCR_EL2::VM::Enable.into() and HCR_EL2::VM::Disable.into(): the field's
\* value at the field's place, every other bit 0.
HCR_EL2_VM_Enable == W(0, 0, 0, 1)

HCR_EL2_VM_Disable == W(0, 0, 0, 0)

\* HCR_EL2::RW::EL1IsAarch64, bit 31.
HCR_EL2_RW_EL1IsAarch64 == W(0, 0, \h8000, 0)

\* The registers of CPU c as the host has them before the crate touched them.
\* SP_EL0 holds the host's current-task pointer, one per CPU.
HostRegs(c, vbar, hcr) ==
    [sp_el0    |-> W(\hFFFF, \h0000, \h4100 + c, \h0040),
     sctlr_el1 |-> W(0, 0, \h30D0, \h0198),
     hcr_el2   |-> hcr,
     vttbr_el2 |-> Zero64,
     vbar_el2  |-> vbar,
     cptr_el2  |-> W(0, 0, 0, \h33FF)]

\* The host's vector table, and HCR_EL2 as the boot code can have left it.
VbarBootValues == {W(0, 0, \h4008, \h2000), W(\hFFFF, 0, \h4008, \h2000)}

HcrBootValues == {Zero64, HCR_EL2_RW_EL1IsAarch64}

is_enabled(regs) == regs.hcr_el2[1] % 2 # 0

\* hardware_disable that leaves VBAR_EL2 alone.
hardware_disable_keeps_vbar(regs, cell) ==
    [cell |-> cell,
     regs |-> [regs EXCEPT !.hcr_el2 = HCR_EL2_VM_Disable]]

\* hardware_enable on a CPU with registers regs and per-CPU cell `cell`:
\* the registers and the cell afterwards. HCR_EL2.set writes the register.
hardware_enable(regs, cell) ==
    [cell |-> regs.vbar_el2,
     regs |-> [regs EXCEPT !.vbar_el2 = exception_vector_base_vcpu,
                           !.hcr_el2 = HCR_EL2_VM_Enable]]

hardware_disable(regs, cell) ==
    [cell |-> cell,
     regs |-> [regs EXCEPT !.vbar_el2 = cell,
                           !.hcr_el2 = HCR_EL2_VM_Disable]]

---------------------------------------------------------------------------
(* The vCPU object and the pieces of run() (src/src/vcpu.rs).              *)

\* The registers of the bank that the model follows; store() and restore()
\* move every register of the bank alike.
BankRegs == {"sp_el0", "sctlr_el1", "hcr_el2", "vttbr_el2"}

GuestSystemRegisters_default == [r \in BankRegs |-> Zero64]

\* GuestSystemRegisters::store(): every register of the bank, hardware to memory.
store(regs) == [r \in BankRegs |-> regs[r]]

\* GuestSystemRegisters::restore(): every register of the bank, memory to hardware.
restore(regs, bank) ==
    [r \in DOMAIN regs |-> IF r \in BankRegs THEN bank[r] ELSE regs[r]]

Aarch64VCpu_new ==
    [host_stack_top |-> Zero64,
     guest_system_regs |-> GuestSystemRegisters_default]

\* init_vm_context(), on the registers of the bank that the model follows.
init_vm_context(v) ==
    [v EXCEPT !.guest_system_regs.sctlr_el1 = W(0, 0, \h30C5, \h0830),
              !.guest_system_regs.hcr_el2 = W(0, 0, \h8000, 1)]

set_ept_root(v, ept_root) ==
    [v EXCEPT !.guest_system_regs.vttbr_el2 = ept_root]

\* The per-CPU region that write_current_raw / read_current_raw reach from
\* CPU c, in which every CPU reaches one shared region.
percpu_current_shared(c) == 0

\* The per-CPU region that write_current_raw / read_current_raw reach from
\* CPU c: that CPU's own.
percpu_current(c) == c

\* save_host_sp_el0(): the value written to the current CPU's HOST_SP_EL0.
save_host_sp_el0(regs) == regs.sp_el0

\* restore_host_sp_el0() that leaves SP_EL0 alone.
restore_host_sp_el0_skipped(regs, cell) == regs

\* restore_host_sp_el0(): the registers after SP_EL0.set(cell).
restore_host_sp_el0(regs, cell) == [regs EXCEPT !.sp_el0 = cell]

\* -- the memory of a vCPU and of the host stack --

\* Where vCPU c lies, and where CPU c's stack pointer is when run_guest is
\* called.
VcpuBase(c) == W(0, 0, \h4400 + c, \h1000)

HostSp(c) == W(0, 0, \h4300 + c, \hF000)

\* x19..x30 as the host has them in run(), one value standing for the twelve.
HostCallee(c) == W(\hCA11, \hEE5A, \h7ED0, c)

\* size_of::<TrapFrame>(): gpr[0..=30], sp_el0, elr, spsr, eight bytes each.
size_of_TrapFrame == (31 + 3) * 8

\* offset_of!(Aarch64VCpu, host_stack_top): #[repr(C)], right behind ctx.
offset_of_host_stack_top == size_of_TrapFrame

\* The bytes save_regs_to_stack! pushes: x19..x30.
callee_frame_size == 12 * 8

\* The 64-bit word of vCPU c's memory at address addr, the vCPU's frame being
\* frame and its other fields v; Zero64 for a word the model does not follow.
vcpu_load(c, frame, v, addr) ==
    IF ~Le64(VcpuBase(c), addr) THEN Zero64
    ELSE LET off == Sub64(addr, VcpuBase(c))
             i == off[1] \div 8
         IN  IF off[2] # 0 \/ off[3] # 0 \/ off[4] # 0 \/ off[1] % 8 # 0
             THEN Zero64
             ELSE IF i <= 30 THEN frame.gpr[i]
             ELSE IF i = 31 THEN frame.sp_el0
             ELSE IF i = 32 THEN frame.elr
             ELSE IF i = 33 THEN frame.spsr
             ELSE IF i * 8 = offset_of_host_stack_top THEN v.host_stack_top
             ELSE Zero64

\* run_guest() up to the eret: the host's callee-saved registers are pushed,
\* the stack pointer goes into host_stack_top, and context_vm_entry, entered
\* with x0 = &host_stack_top, puts sp at &ctx and loads the guest's registers
\* from the frame.
run_guest(c, cpu, stk, v, frame, regs) ==
    LET pushed == Sub64(cpu.sp, FromNat(callee_frame_size))
        x11 == Add64(VcpuBase(c), FromNat(offset_of_host_stack_top)).val
    IN  [stack |-> <<[at |-> pushed, callee |-> cpu.callee]>> \o stk,
         vcpu |-> [v EXCEPT !.host_stack_top = pushed],
         core |-> [cpu EXCEPT !.sp = Sub64(x11, FromNat(size_of_TrapFrame)),
                              !.callee = frame.gpr[19],
                              !.x0 = frame.gpr[0]],
         regs |-> [regs EXCEPT !.sp_el0 = frame.sp_el0]]

\* vmexit_trampoline that skips one word too few.
vmexit_trampoline_short_skip(c, cpu, stk, v, frame) ==
    LET x9 == Add64(cpu.sp, FromNat(33 * 8)).val
        x10 == vcpu_load(c, frame, v, x9)
        hit == stk # <<>> /\ stk[1].at = x10
    IN  [stack |-> IF hit THEN Tail(stk) ELSE stk,
         loaded |-> x10,
         core |-> [cpu EXCEPT
                     !.sp = Add64(x10, FromNat(callee_frame_size)).val,
                     !.callee = IF hit THEN stk[1].callee ELSE Zero64]]

\* vmexit_trampoline(): sp is at &ctx; skip the frame, load host_stack_top
\* into sp, pop x19..x30 and ret. A pop from an address that holds no pushed
\* registers yields words the model does not follow, Zero64.
vmexit_trampoline(c, cpu, stk, v, frame) ==
    LET x9 == Add64(cpu.sp, FromNat(34 * 8)).val
        x10 == vcpu_load(c, frame, v, x9)
        hit == stk # <<>> /\ stk[1].at = x10
    IN  [stack |-> IF hit THEN Tail(stk) ELSE stk,
         loaded |-> x10,
         core |-> [cpu EXCEPT
                     !.sp = Add64(x10, FromNat(callee_frame_size)).val,
                     !.callee = IF hit THEN stk[1].callee ELSE Zero64]]

\* -- the exit of the guest and the dispatch on the trap kind --

ExternalInterrupt(vector) == [kind |-> "ExternalInterrupt", vector |-> vector]

\* TrapKind::try_from(u8), "Invalid" for a value the enum does not name.
TrapKind_try_from(b) ==
    CASE b = 0 -> "Synchronous"
      [] b = 1 -> "Irq"
      [] b = 2 -> "Fiq"
      [] b = 3 -> "SError"
      [] OTHER -> "Invalid"

\* x as u8, for the u64 x.
as_u8(x) == x[1] % 256

handle_exception_irq(context_frame) ==
    [frame |-> context_frame, res |-> Ok(ExternalInterrupt(33))]

\* The match of vmexit_handler in which a FIQ is handled as an IRQ is.
vmexit_dispatch_fiq_as_irq(exit_reason, context_frame, overflow_checks) ==
    CASE exit_reason = "Synchronous" ->
            [handler |-> "handle_exception_sync"]
            @@ handle_exception_sync(context_frame, overflow_checks)
      [] exit_reason \in {"Irq", "Fiq"} ->
            [handler |-> "handle_exception_irq"]
            @@ handle_exception_irq(context_frame)
      [] OTHER ->
            [handler |-> "panic", frame |-> context_frame,
             res |-> Panic("Unhandled exception")]

\* The match of vmexit_handler: the handler the trap kind is routed to, the
\* frame afterwards and the result.
vmexit_dispatch(exit_reason, context_frame, overflow_checks) ==
    CASE exit_reason = "Synchronous" ->
            [handler |-> "handle_exception_sync"]
            @@ handle_exception_sync(context_frame, overflow_checks)
      [] exit_reason = "Irq" ->
            [handler |-> "handle_exception_irq"]
            @@ handle_exception_irq(context_frame)
      [] OTHER ->
            [handler |-> "panic", frame |-> context_frame,
             res |-> Panic("Unhandled exception")]

\* -- the order of the steps of run() --

\* vmexit_handler that reinstates the host's SP_EL0 before it stores the bank.
vmexit_handler_steps_host_first == <<"restore_host_sp_el0", "store", "dispatch">>

\* restore_vm_system_regs that does not load the bank.
restore_vm_system_regs_steps_no_restore == <<"cptr_el2", "fence">>

\* run() that loads the bank before it saves the host's SP_EL0.
run_steps_restore_first ==
    <<"restore_vm_system_regs", "save_host_sp_el0", "run_guest", "vmexit",
      "try_from", "vmexit_handler">>

\* run(): the calls it makes, in order. "vmexit" is the return of run_guest():
\* the guest has run and trapped, and the trampoline has returned into run().
run_steps ==
    <<"save_host_sp_el0", "restore_vm_system_regs", "run_guest", "vmexit",
      "try_from", "vmexit_handler">>

restore_vm_system_regs_steps == <<"cptr_el2", "restore", "fence">>

vmexit_handler_steps == <<"store", "restore_host_sp_el0", "dispatch">>

RECURSIVE Flatten(_)
Flatten(ss) == IF ss = <<>> THEN <<>> ELSE Head(ss) \o Flatten(Tail(ss))

\* The steps of run() with the two callees written out.
RunProgram ==
    Flatten([i \in 1..Len(run_steps) |->
        CASE run_steps[i] = "restore_vm_system_regs" -> restore_vm_system_regs_steps
          [] run_steps[i] = "vmexit_handler" -> vmexit_handler_steps
          [] OTHER -> <<run_steps[i]>>])

\* -- the registration latch (src/src/lib.rs) --

\* The callers of do_register_lower_aarch64_synchronous_handler.
Callers == {0, 1, 2}

\* A call that runs the closure whatever the state of the latch.
call_once_unlatched(status) == "run"

\* INIT.call_once(f), by the state in which the caller finds the latch: the
\* first caller runs f, a caller that finds f running waits for it, a caller
\* that finds f done skips it.
call_once(status) ==
    CASE status = "Incomplete" -> "run"
      [] status = "Running" -> "wait"
      [] OTHER -> "skip"

---------------------------------------------------------------------------
(* The state machine.                                                      *)

\* The variables of the decode before any trap.
DecodeIdle ==
    /\ pc = "ready"
    /\ ctx = TrapFrame_default
    /\ ctx0 = TrapFrame_default
    /\ esr = [EC |-> 0, IL |-> 0, ISS |-> 0]
    /\ far = Zero64
    /\ hpfar = Zero64
    /\ stage2 = FALSE
    /\ ret = NoRet
    /\ panic_msg = ""

\* The per-CPU cells and their history before any call: a per-CPU static
\* starts at 0.
PcpuIdle ==
    /\ ORI_EXCEPTION_VECTOR_BASE = [c \in Cpus |-> Zero64]
    /\ pcpu_calls = [c \in Cpus |-> <<>>]
    /\ pcpu_hist = [c \in Cpus |-> [before |-> sysreg[c], first_vbar |-> <<>>]]
    /\ sysreg_boot = sysreg

NoHist ==
    [runs |-> 0, trace |-> <<>>, swaps |-> <<>>, sp_el0_at_call |-> Zero64,
     regs_at_call |-> GuestSystemRegisters_default,
     sp_at_entry |-> Zero64, callee_at_entry |-> Zero64,
     stored_sp |-> Zero64, loaded_sp |-> Zero64, guest_sp_el0 |-> Zero64,
     handler |-> "none", cells |-> {}]

\* The vCPUs and the CPUs' run() state before any run(): every vCPU is new.
RunIdle ==
    /\ HOST_SP_EL0 = [c \in Cpus |-> Zero64]
    /\ rpc = [c \in Cpus |-> 0]
    /\ rret = [c \in Cpus |-> NoRet]
    /\ vcpu = [c \in Cpus |-> Aarch64VCpu_new]
    /\ core = [c \in Cpus |->
                 [sp |-> HostSp(c), callee |-> HostCallee(c), x0 |-> Zero64,
                  trap_kind |-> "none"]]
    /\ stack = [c \in Cpus |-> <<>>]
    /\ hist = [c \in Cpus |-> NoHist]

OnceIdle ==
    /\ INIT = "Incomplete"
    /\ registered = 0
    /\ opc = [c \in Callers |-> "idle"]
    /\ oret = [c \in Callers |-> <<>>]

\* The registers of every CPU as the host uses them, virtualization off.
HostSysreg ==
    sysreg = [c \in Cpus |-> HostRegs(c, W(0, 0, \h4008, \h2000), Zero64)]

Init ==
    /\ DecodeIdle
    /\ HostSysreg
    /\ PcpuIdle
    /\ RunIdle
    /\ OnceIdle

\* The vector stub has saved the guest registers into the frame.
TakeTrap(frame) ==
    /\ pc' = "trapped"
    /\ ctx' = frame
    /\ ctx0' = frame
    /\ ret' = NoRet
    /\ UNCHANGED panic_msg

\* The guest executes hvc #imm16.
TrapHvc ==
    /\ pc = "ready"
    /\ \E p \in 0..(NumPatterns - 1), e \in ElrValues, x0 \in Gpr0Values,
       imm \in {0, 1} :
        /\ TakeTrap([GuestFrame(p, e) EXCEPT !.gpr[0] = x0])
        /\ esr' = [EC |-> 22, IL |-> 1, ISS |-> imm]
        /\ stage2' = FALSE
        /\ UNCHANGED <<far, hpfar>>
    /\ UNCHANGED <<sysreg, pcpuVars, runVars, onceVars>>

\* A guest load or store aborts.
TrapDataAbort ==
    /\ pc = "ready"
    /\ \E p \in 0..(NumPatterns - 1), e \in ElrValues, il \in 0..1, isv \in 0..1,
       sas \in 0..3, srt \in 0..31, sf \in 0..1, wnr \in 0..1,
       dfsc \in DfscValues, s2 \in BOOLEAN :
        /\ TakeTrap(GuestFrame(p, e))
        /\ esr' = [EC |-> 36, IL |-> il,
                   ISS |-> isv * 2^24 + sas * 2^22 + srt * 2^16 + sf * 2^15
                           + wnr * 64 + dfsc]
        /\ far' = GuestFar(p)
        /\ hpfar' = GuestHpfar(p)
        /\ stage2' = s2
    /\ UNCHANGED <<sysreg, pcpuVars, runVars, onceVars>>

\* Any other synchronous exception; only an abort can be a stage-2 abort.
TrapOther ==
    /\ pc = "ready"
    /\ \E p \in 0..(NumPatterns - 1), e \in ElrValues, ec \in OtherEcValues,
       il \in 0..1, s2 \in BOOLEAN :
        /\ s2 => ec = 32
        /\ TakeTrap(GuestFrame(p, e))
        /\ esr' = [EC |-> ec, IL |-> il, ISS |-> 0]
        /\ far' = GuestFar(p)
        /\ hpfar' = GuestHpfar(p)
        /\ stage2' = s2
    /\ UNCHANGED <<sysreg, pcpuVars, runVars, onceVars>>

\* run() dispatches the synchronous trap to handle_exception_sync(&mut ctx).
HandleExceptionSync ==
    /\ pc = "trapped"
    /\ \E overflow_checks \in BOOLEAN :
        LET r == handle_exception_sync(ctx, overflow_checks)
        IN  /\ ctx' = r.frame
            /\ IF r.res.tag = "Panic"
               THEN pc' = "panicked" /\ panic_msg' = r.res.msg /\ ret' = NoRet
               ELSE pc' = "returned" /\ ret' = r.res /\ UNCHANGED panic_msg
    /\ UNCHANGED <<esr, far, hpfar, stage2, ctx0>>
    /\ UNCHANGED <<sysreg, pcpuVars, runVars, onceVars>>

\* The guest is interrupted: the vector stub saves the guest registers; the
\* syndrome registers are not written.
TrapIrq ==
    /\ pc = "ready"
    /\ \E p \in 0..(NumPatterns - 1), e \in ElrValues, x0 \in Gpr0Values :
        /\ ctx' = [GuestFrame(p, e) EXCEPT !.gpr[0] = x0]
        /\ ctx0' = ctx'
    /\ pc' = "irq_trapped"
    /\ UNCHANGED <<esr, far, hpfar, stage2, ret, panic_msg>>
    /\ UNCHANGED <<sysreg, pcpuVars, runVars, onceVars>>

\* run() dispatches the IRQ to handle_exception_irq(&mut ctx).
HandleExceptionIrq ==
    /\ pc = "irq_trapped"
    /\ LET r == handle_exception_irq(ctx)
       IN  ctx' = r.frame /\ ret' = r.res
    /\ pc' = "irq_returned"
    /\ UNCHANGED <<esr, far, hpfar, stage2, panic_msg, ctx0>>
    /\ UNCHANGED <<sysreg, pcpuVars, runVars, onceVars>>

Next ==
    \/ TrapHvc \/ TrapDataAbort \/ TrapOther \/ HandleExceptionSync
    \/ TrapIrq \/ HandleExceptionIrq

Spec == Init /\ [][Next]_allvars

---------------------------------------------------------------------------
(* SpecPcpu: hardware_enable and hardware_disable, called in any order.    *)

MaxPcpuCalls == 4

\* Each CPU boots with its own vector table and HCR_EL2.
PcpuInit ==
    /\ DecodeIdle
    /\ \E boot \in [Cpus -> VbarBootValues \X HcrBootValues] :
           sysreg = [c \in Cpus |-> HostRegs(c, boot[c][1], boot[c][2])]
    /\ PcpuIdle
    /\ RunIdle
    /\ OnceIdle

\* What a call of `name` on CPU c leaves in the history.
PcpuCalled(c, name) ==
    /\ pcpu_calls' = [pcpu_calls EXCEPT ![c] = Append(@, name)]
    /\ pcpu_hist' = [pcpu_hist EXCEPT ![c] =
         [before |-> sysreg[c],
          first_vbar |-> IF name = "hardware_enable" /\ @.first_vbar = <<>>
                         THEN <<sysreg[c].vbar_el2>> ELSE @.first_vbar]]

HardwareEnable(c) ==
    /\ Len(pcpu_calls[c]) < MaxPcpuCalls
    /\ LET r == hardware_enable(sysreg[c], ORI_EXCEPTION_VECTOR_BASE[c])
       IN  /\ sysreg' = [sysreg EXCEPT ![c] = r.regs]
           /\ ORI_EXCEPTION_VECTOR_BASE' =
                  [ORI_EXCEPTION_VECTOR_BASE EXCEPT ![c] = r.cell]
    /\ PcpuCalled(c, "hardware_enable")
    /\ UNCHANGED <<vars, sysreg_boot, runVars, onceVars>>

HardwareDisable(c) ==
    /\ Len(pcpu_calls[c]) < MaxPcpuCalls
    /\ LET r == hardware_disable(sysreg[c], ORI_EXCEPTION_VECTOR_BASE[c])
       IN  /\ sysreg' = [sysreg EXCEPT ![c] = r.regs]
           /\ ORI_EXCEPTION_VECTOR_BASE' =
                  [ORI_EXCEPTION_VECTOR_BASE EXCEPT ![c] = r.cell]
    /\ PcpuCalled(c, "hardware_disable")
    /\ UNCHANGED <<vars, sysreg_boot, runVars, onceVars>>

PcpuNext == \E c \in Cpus : HardwareEnable(c) \/ HardwareDisable(c)

SpecPcpu == PcpuInit /\ [][PcpuNext]_allvars

---------------------------------------------------------------------------
(* SpecRun: run() on two CPUs, each CPU with its own vCPU, step by step.   *)
(* Every guest is entered with the same frame and leaves with an hvc, an   *)
(* IRQ, a FIQ or an SError; the decode of the other synchronous traps is   *)
(* Spec's.                                                                 *)

MaxRuns == 2

\* x0 of the guest at its hvc: a hypercall number, and PSCI SYSTEM_OFF.
RunGpr0Values == {FromNat(42), W(0, 0, \h8400, 8)}

\* SCTLR_EL1 as the guest can have left it at the exit: as it was set up, or
\* with the MMU turned on.
GuestSctlrValues == {W(0, 0, \h30C5, \h0830), W(0, 0, \h30C5, \h0831)}

EptRoot(c) == W(0, 0, \h4800 + c, 0)

\* Every CPU has called hardware_enable; every vCPU is set up.
RunInit ==
    /\ pc = "ready"
    /\ \E x0 \in RunGpr0Values :
           ctx = [GuestFrame(1, W(0, 0, \h4008, 0)) EXCEPT !.gpr[0] = x0]
    /\ ctx0 = ctx
    /\ esr = [EC |-> 22, IL |-> 1, ISS |-> 0]
    /\ far = Zero64
    /\ hpfar = Zero64
    /\ stage2 = FALSE
    /\ ret = NoRet
    /\ panic_msg = ""
    /\ sysreg_boot = [c \in Cpus |-> HostRegs(c, W(0, 0, \h4008, \h2000), Zero64)]
    /\ sysreg = [c \in Cpus |-> hardware_enable(sysreg_boot[c], Zero64).regs]
    /\ ORI_EXCEPTION_VECTOR_BASE =
           [c \in Cpus |-> hardware_enable(sysreg_boot[c], Zero64).cell]
    /\ pcpu_calls = [c \in Cpus |-> <<"hardware_enable">>]
    /\ pcpu_hist = [c \in Cpus |->
                      [before |-> sysreg_boot[c],
                       first_vbar |-> <<sysreg_boot[c].vbar_el2>>]]
    /\ HOST_SP_EL0 = [c \in Cpus |-> Zero64]
    /\ rpc = [c \in Cpus |-> 0]
    /\ rret = [c \in Cpus |-> NoRet]
    /\ vcpu = [c \in Cpus |->
                 set_ept_root(init_vm_context(Aarch64VCpu_new), EptRoot(c))]
    /\ core = [c \in Cpus |->
                 [sp |-> HostSp(c), callee |-> HostCallee(c), x0 |-> Zero64,
                  trap_kind |-> "none"]]
    /\ stack = [c \in Cpus |-> <<>>]
    /\ hist = [c \in Cpus |-> NoHist]
    /\ OnceIdle

\* CPU c is in run(), about to take the step op.
At(c, op) ==
    /\ rpc[c] >= 1
    /\ rret[c].tag # "Panic"
    /\ RunProgram[rpc[c]] = op

\* CPU c goes on to the next step; after the last one run() has returned.
Advance(c) ==
    rpc' = [rpc EXCEPT ![c] = IF @ = Len(RunProgram) THEN 0 ELSE @ + 1]

\* The history h with the step op taken.
Logged(h, op) ==
    [h EXCEPT !.trace = Append(@, op),
              !.swaps = IF op \in {"restore", "store"} THEN Append(@, op) ELSE @]

\* The history h with an access to a HOST_SP_EL0 cell.
Accessed(h, access, cell) ==
    [h EXCEPT !.cells = @ \cup {[access |-> access, cell |-> cell,
                                 before |-> h.trace]}]

\* The scheduler on CPU c calls run() on that CPU's vCPU.
RunCall(c) ==
    /\ rpc[c] = 0
    /\ rret[c].tag # "Panic"
    /\ hist[c].runs < MaxRuns
    /\ rpc' = [rpc EXCEPT ![c] = 1]
    /\ rret' = [rret EXCEPT ![c] = NoRet]
    /\ core' = [core EXCEPT ![c].trap_kind = "none", ![c].x0 = Zero64]
    /\ hist' = [hist EXCEPT ![c] =
                  [NoHist EXCEPT !.runs = hist[c].runs + 1,
                                 !.swaps = hist[c].swaps,
                                 !.cells = hist[c].cells,
                                 !.sp_el0_at_call = sysreg[c].sp_el0,
                                 !.regs_at_call = store(sysreg[c])]]
    /\ UNCHANGED <<vars, sysreg, pcpuVars, HOST_SP_EL0, vcpu, stack, onceVars>>

SaveHostSpEl0(c) ==
    /\ At(c, "save_host_sp_el0")
    /\ HOST_SP_EL0' = [HOST_SP_EL0 EXCEPT ![percpu_current(c)] =
                          save_host_sp_el0(sysreg[c])]
    /\ hist' = [hist EXCEPT ![c] =
                  Logged(Accessed(@, "write", percpu_current(c)),
                         "save_host_sp_el0")]
    /\ Advance(c)
    /\ UNCHANGED <<vars, sysreg, pcpuVars, rret, vcpu, core, stack, onceVars>>

\* msr cptr_el2, xzr
CptrEl2(c) ==
    /\ At(c, "cptr_el2")
    /\ sysreg' = [sysreg EXCEPT ![c].cptr_el2 = Zero64]
    /\ hist' = [hist EXCEPT ![c] = Logged(@, "cptr_el2")]
    /\ Advance(c)
    /\ UNCHANGED <<vars, pcpuVars, HOST_SP_EL0, rret, vcpu, core, stack, onceVars>>

\* self.guest_system_regs.restore()
Restore(c) ==
    /\ At(c, "restore")
    /\ sysreg' = [sysreg EXCEPT ![c] = restore(@, vcpu[c].guest_system_regs)]
    /\ hist' = [hist EXCEPT ![c] = Logged(@, "restore")]
    /\ Advance(c)
    /\ UNCHANGED <<vars, pcpuVars, HOST_SP_EL0, rret, vcpu, core, stack, onceVars>>

\* ic iallu; tlbi alle2; tlbi alle1; dsb nsh; isb
Fence(c) ==
    /\ At(c, "fence")
    /\ hist' = [hist EXCEPT ![c] = Logged(@, "fence")]
    /\ Advance(c)
    /\ UNCHANGED <<vars, sysreg, pcpuVars, HOST_SP_EL0, rret, vcpu, core, stack,
                   onceVars>>

\* run_guest() up to the eret: the guest runs from here on.
RunGuest(c) ==
    /\ At(c, "run_guest")
    /\ LET r == run_guest(c, core[c], stack[c], vcpu[c], ctx, sysreg[c])
       IN  /\ stack' = [stack EXCEPT ![c] = r.stack]
           /\ vcpu' = [vcpu EXCEPT ![c] = r.vcpu]
           /\ core' = [core EXCEPT ![c] = r.core]
           /\ sysreg' = [sysreg EXCEPT ![c] = r.regs]
           /\ hist' = [hist EXCEPT ![c] =
                         Logged([@ EXCEPT !.sp_at_entry = core[c].sp,
                                          !.callee_at_entry = core[c].callee,
                                          !.stored_sp = r.vcpu.host_stack_top],
                                "run_guest")]
    /\ Advance(c)
    /\ UNCHANGED <<vars, pcpuVars, HOST_SP_EL0, rret, onceVars>>

\* The guest traps to EL2: the vector stub saves the guest's registers into
\* the frame and puts the trap kind in x0, and vmexit_trampoline returns into
\* run().
Vmexit(c) ==
    /\ At(c, "vmexit")
    /\ \E kind \in {0, 1, 2, 3}, sctlr \in GuestSctlrValues :
        LET t == vmexit_trampoline(c, [core[c] EXCEPT !.x0 = FromNat(kind)],
                                   stack[c], vcpu[c], ctx)
        IN  /\ sysreg' = [sysreg EXCEPT ![c].sctlr_el1 = sctlr]
            /\ core' = [core EXCEPT ![c] = t.core]
            /\ stack' = [stack EXCEPT ![c] = t.stack]
            /\ hist' = [hist EXCEPT ![c] =
                          Logged([@ EXCEPT !.guest_sp_el0 = sysreg[c].sp_el0,
                                           !.loaded_sp = t.loaded],
                                 "vmexit")]
    /\ Advance(c)
    /\ UNCHANGED <<vars, pcpuVars, HOST_SP_EL0, rret, vcpu, onceVars>>

\* TrapKind::try_from(exit_reson as u8).expect("Invalid TrapKind")
TryFrom(c) ==
    /\ At(c, "try_from")
    /\ LET k == TrapKind_try_from(as_u8(core[c].x0))
       IN  IF k = "Invalid"
           THEN /\ rret' = [rret EXCEPT ![c] = Panic("Invalid TrapKind")]
                /\ UNCHANGED <<rpc, core>>
           ELSE /\ core' = [core EXCEPT ![c].trap_kind = k]
                /\ Advance(c)
                /\ UNCHANGED rret
    /\ hist' = [hist EXCEPT ![c] = Logged(@, "try_from")]
    /\ UNCHANGED <<vars, sysreg, pcpuVars, HOST_SP_EL0, vcpu, stack, onceVars>>

\* self.guest_system_regs.store()
Store(c) ==
    /\ At(c, "store")
    /\ vcpu' = [vcpu EXCEPT ![c].guest_system_regs = store(sysreg[c])]
    /\ hist' = [hist EXCEPT ![c] = Logged(@, "store")]
    /\ Advance(c)
    /\ UNCHANGED <<vars, sysreg, pcpuVars, HOST_SP_EL0, rret, core, stack,
                   onceVars>>

RestoreHostSpEl0(c) ==
    /\ At(c, "restore_host_sp_el0")
    /\ sysreg' = [sysreg EXCEPT ![c] =
                    restore_host_sp_el0(@, HOST_SP_EL0[percpu_current(c)])]
    /\ hist' = [hist EXCEPT ![c] =
                  Logged(Accessed(@, "read", percpu_current(c)),
                         "restore_host_sp_el0")]
    /\ Advance(c)
    /\ UNCHANGED <<vars, pcpuVars, HOST_SP_EL0, rret, vcpu, core, stack, onceVars>>

\* The match of vmexit_handler: run() returns its result, or the core halts.
Dispatch(c) ==
    /\ At(c, "dispatch")
    /\ \E overflow_checks \in BOOLEAN :
        LET r == vmexit_dispatch(core[c].trap_kind, ctx, overflow_checks)
        IN  /\ ctx' = r.frame
            /\ rret' = [rret EXCEPT ![c] = r.res]
            /\ hist' = [hist EXCEPT ![c] =
                          Logged([@ EXCEPT !.handler = r.handler], "dispatch")]
            /\ IF r.res.tag = "Panic" THEN UNCHANGED rpc ELSE Advance(c)
    /\ UNCHANGED <<pc, esr, far, hpfar, stage2, ret, panic_msg, ctx0>>
    /\ UNCHANGED <<sysreg, pcpuVars, HOST_SP_EL0, vcpu, core, stack, onceVars>>

RunNext ==
    \E c \in Cpus :
        \/ RunCall(c) \/ SaveHostSpEl0(c) \/ CptrEl2(c) \/ Restore(c)
        \/ Fence(c) \/ RunGuest(c) \/ Vmexit(c) \/ TryFrom(c) \/ Store(c)
        \/ RestoreHostSpEl0(c) \/ Dispatch(c)

SpecRun == RunInit /\ [][RunNext]_allvars

---------------------------------------------------------------------------
(* SpecOnce: do_register_lower_aarch64_synchronous_handler, called from    *)
(* several CPUs at once.                                                   *)

MaxOnceCalls == 2

\* A caller enters do_register_lower_aarch64_synchronous_handler.
DoRegisterCall(c) ==
    /\ opc[c] = "idle"
    /\ Len(oret[c]) < MaxOnceCalls
    /\ opc' = [opc EXCEPT ![c] = "call_once"]
    /\ UNCHANGED <<vars, sysreg, pcpuVars, runVars, INIT, registered, oret>>

\* INIT.call_once: the caller takes the latch, or finds the closure done; a
\* caller that finds the closure running spins until it is done.
CallOnce(c) ==
    /\ opc[c] = "call_once"
    /\ call_once(INIT) # "wait"
    /\ IF call_once(INIT) = "run"
       THEN INIT' = "Running" /\ opc' = [opc EXCEPT ![c] = "closure"]
       ELSE UNCHANGED INIT /\ opc' = [opc EXCEPT ![c] = "return"]
    /\ UNCHANGED <<vars, sysreg, pcpuVars, runVars, registered, oret>>

\* The closure: register_lower_aarch64_synchronous_handler(..).
RegisterHandler(c) ==
    /\ opc[c] = "closure"
    /\ registered' = registered + 1
    /\ opc' = [opc EXCEPT ![c] = "complete"]
    /\ UNCHANGED <<vars, sysreg, pcpuVars, runVars, INIT, oret>>

\* The closure has returned: the latch is marked done.
OnceComplete(c) ==
    /\ opc[c] = "complete"
    /\ INIT' = "Complete"
    /\ opc' = [opc EXCEPT ![c] = "return"]
    /\ UNCHANGED <<vars, sysreg, pcpuVars, runVars, registered, oret>>

\* return Ok(())
DoRegisterReturn(c) ==
    /\ opc[c] = "return"
    /\ oret' = [oret EXCEPT ![c] = Append(@, Ok("()"))]
    /\ opc' = [opc EXCEPT ![c] = "idle"]
    /\ UNCHANGED <<vars, sysreg, pcpuVars, runVars, INIT, registered>>

OnceNext ==
    \E c \in Callers :
        \/ DoRegisterCall(c) \/ CallOnce(c) \/ RegisterHandler(c)
        \/ OnceComplete(c) \/ DoRegisterReturn(c)

SpecOnce == Init /\ [][OnceNext]_allvars

---------------------------------------------------------------------------
(* Properties of the decode.                                               *)

\* handle_exception_sync has run: it returned to run() or it panicked.
Decoded == pc \in {"returned", "panicked"}

\* x0 as the guest had it at the trap.
TrapX0 == ctx0.gpr[0]

\* A PSCI function id, stated on the limbs: 0x8400_0000..=0x8400_001F or
\* 0xC400_0000..=0xC400_001F.
IsPsciId(x) ==
    /\ x[4] = 0 /\ x[3] = 0
    /\ x[2] \in {\h8400, \hC400}
    /\ x[1] \in 0..31

OverflowPanic == pc = "panicked" /\ panic_msg = "attempt to add with overflow"

ExpectedStep == IF esr.IL = 0 THEN 2 ELSE 4

\* elr is the elr of the trap plus the step, at 64 bits.
ElrAdvancedOnce == ctx.elr = Add64(ctx0.elr, FromNat(ExpectedStep)).val

\* Nothing of the frame but elr differs from the frame of the trap.
OnlyElrChanged == [ctx EXCEPT !.elr = ctx0.elr] = ctx0

IsDataAbort == esr.EC = 36

\* The decode was handed a data abort and did not die on the elr addition
\* (a build with overflow checks panics there when elr + step passes 2^64 - 1).
DataAbortDecoded == Decoded /\ IsDataAbort /\ ~OverflowPanic

IsMmio(r) == r.tag = "Ok" /\ r.reason.kind \in {"MmioRead", "MmioWrite"}

\* The shape C4 promises of an exit reason.
MmioWellFormed(r) ==
    /\ IsMmio(r)
    /\ AccessWidth_size(r.reason.width) \in {1, 2, 4, 8}
    /\ exception_data_abort_access_reg \in 0..31
    /\ r.reason.kind = "MmioRead" =>
        /\ r.reason.reg \in 0..31
        /\ AccessWidth_size(r.reason.reg_width) \in {4, 8}

\* C4 as claimed: every data abort with ISV = 1 decodes to MmioRead or
\* MmioWrite with width in {1,2,4,8}, reg in 0..=31 and reg_width in {4,8};
\* stated here for the aborts whose fault_ipa() succeeds, where it already fails.
C4_Original ==
    (DataAbortDecoded /\ exception_data_abort_handleable
        /\ exception_fault_addr.ok) =>
        pc = "returned" /\ MmioWellFormed(ret)

\* C4 as amended: every data abort with ISV = 1 that is a translation fault
\* and whose fault_ipa() succeeds decodes to MmioRead or MmioWrite with width
\* in {1,2,4,8}, reg in 0..=31 and reg_width in {4,8}.
C4_TranslateFaultIsMmio ==
    (DataAbortDecoded /\ exception_data_abort_handleable
        /\ exception_data_abort_is_translate_fault /\ exception_fault_addr.ok) =>
        pc = "returned" /\ MmioWellFormed(ret)

\* C4 witness: a 64-bit load into x31's slot came back as an MmioRead.
C4_Witness ==
    /\ pc = "returned" /\ IsDataAbort /\ exception_data_abort_handleable
    /\ ret.tag = "Ok" /\ ret.reason.kind = "MmioRead"
    /\ ret.reason.reg = 31 /\ ret.reason.reg_width = "Qword"
    /\ ret.reason.width = "Qword"

\* C5: whenever the data-abort decode returns MmioRead or MmioWrite, elr is
\* the elr of the trap plus 2 (ESR.IL = 0) or 4, advanced exactly once.
C5_ElrAdvanced ==
    (pc = "returned" /\ IsDataAbort /\ IsMmio(ret)) => ElrAdvancedOnce

\* C5 witness: a 16-bit instruction was emulated and elr moved by 2.
C5_Witness ==
    /\ pc = "returned" /\ IsDataAbort /\ IsMmio(ret)
    /\ esr.IL = 0
    /\ ctx0.elr = W(0, 0, \h4008, 0) /\ ctx.elr = W(0, 0, \h4008, 2)

C9_OtherClassIsFatal ==
    (Decoded /\ exception_class \notin {"DataAbortLowerEL", "HVC64"}) =>
        pc = "panicked" /\ ret = NoRet

\* The case of C10: the InvalidInput returns of the data-abort decode are never
\* taken, since 1 << SAS and 4 + 4 * SF always name an AccessWidth.
InvalidInputNeverReturned == ret # Err("InvalidInput")

\* C21: the decode of an HVC64 trap, PSCI or not, and of an IRQ leaves the
\* TrapFrame as the vector stub saved it, x0..x30, sp, elr and spsr; elr
\* differs from the elr of the trap only after the decode of a data abort.
C21_FrameUnchanged ==
    /\ (Decoded /\ esr.EC = 22) => ctx = ctx0
    /\ pc = "irq_returned" => ctx = ctx0
    /\ ctx.elr # ctx0.elr => (Decoded /\ IsDataAbort)

\* C21 witness: a generic hypercall decoded with the frame of the trap still in
\* place.
C21_Witness ==
    /\ pc = "returned" /\ esr.EC = 22
    /\ ret.tag = "Ok" /\ ret.reason.kind = "Hypercall"
    /\ TrapX0 = FromNat(42)
    /\ ctx = ctx0
    /\ ctx.gpr[5] # Zero64 /\ ctx.elr = W(0, 0, \h4008, 0)

\* C22: when fault_ipa() fails with BadState in the decode of a data abort,
\* handle_data_abort returns that error and the TrapFrame is as the vector
\* stub saved it: elr is not advanced and no gpr is changed.
C22_BadStateKeepsFrame ==
    (Decoded /\ IsDataAbort /\ ~exception_fault_addr.ok) =>
        /\ pc = "returned"
        /\ ret = Err("BadState")
        /\ ctx = ctx0

\* C22 witness: a data abort that is not a stage-2 abort returned BadState
\* with elr where the trap left it.
C22_Witness ==
    /\ pc = "returned" /\ IsDataAbort /\ ~stage2
    /\ ret = Err("BadState")
    /\ ctx.elr = W(0, 0, \h4008, 0) /\ ctx0.elr = ctx.elr
    /\ ctx.gpr = ctx0.gpr

---------------------------------------------------------------------------
(* hardware_enable and hardware_disable, under SpecPcpu.                   *)

LastCall(c) == pcpu_calls[c][Len(pcpu_calls[c])]

\* CPU c's calls so far end with hardware_disable and hold a hardware_enable.
EndsWithDisable(c) ==
    /\ pcpu_calls[c] # <<>>
    /\ LastCall(c) = "hardware_disable"
    /\ pcpu_hist[c].first_vbar # <<>>

\* No hardware_enable directly follows a hardware_enable on CPU c.
NoEnableTwice(c) ==
    \A i \in 1..(Len(pcpu_calls[c]) - 1) :
        ~(pcpu_calls[c][i] = "hardware_enable"
            /\ pcpu_calls[c][i + 1] = "hardware_enable")

\* C11 as stated: after any calls that end with hardware_disable, VBAR_EL2
\* is what it was before the first hardware_enable, also when hardware_enable
\* was called more than once before hardware_disable.
C11_Original ==
    \A c \in Cpus :
        EndsWithDisable(c) => sysreg[c].vbar_el2 = pcpu_hist[c].first_vbar[1]

\* C11: after any calls on one CPU that end with hardware_disable and in
\* which no hardware_enable directly follows another hardware_enable,
\* VBAR_EL2 is what it was before the first hardware_enable.
C11_VbarRoundTrip ==
    \A c \in Cpus :
        (EndsWithDisable(c) /\ NoEnableTwice(c)) =>
            sysreg[c].vbar_el2 = pcpu_hist[c].first_vbar[1]

\* C11 witness: enable, disable, enable, disable on a CPU restored the host's
\* vector table.
C11_Witness ==
    \E c \in Cpus :
        /\ pcpu_calls[c] = <<"hardware_enable", "hardware_disable",
                             "hardware_enable", "hardware_disable">>
        /\ sysreg[c].vbar_el2 = sysreg_boot[c].vbar_el2
        /\ sysreg[c].vbar_el2 # exception_vector_base_vcpu

\* Every bit of x and y other than bit 0 is the same.
SameButBit0(x, y) ==
    /\ x[1] \div 2 = y[1] \div 2
    /\ x[2] = y[2] /\ x[3] = y[3] /\ x[4] = y[4]

\* C19: hardware_enable sets and hardware_disable clears bit 0 of HCR_EL2 and
\* leaves every other bit of HCR_EL2 as it was before the call.
C19_OnlyVmBit ==
    \A c \in Cpus :
        pcpu_calls[c] # <<>> =>
            /\ is_enabled(sysreg[c]) <=> LastCall(c) = "hardware_enable"
            /\ SameButBit0(sysreg[c].hcr_el2, pcpu_hist[c].before.hcr_el2)

---------------------------------------------------------------------------
(* run(), under SpecRun.                                                   *)

Has(tr, op) == \E i \in 1..Len(tr) : tr[i] = op

Pos(tr, op) == CHOOSE i \in 1..Len(tr) : tr[i] = op

Times(tr, op) == Cardinality({i \in 1..Len(tr) : tr[i] = op})

\* The steps CPU c has taken in its current or last run().
Trace(c) == hist[c].trace

Bank(c) == vcpu[c].guest_system_regs

\* run() has returned to the scheduler on CPU c.
RunReturned(c) == rpc[c] = 0 /\ hist[c].runs > 0

\* run() is over on CPU c: it has returned or the core has halted.
RunOver(c) == RunReturned(c) \/ rret[c].tag = "Panic"

\* The guest of CPU c is running.
InGuest(c) == At(c, "vmexit")

\* C12: on every exit that run() handles, store() is done before the host's
\* SP_EL0 is written back, and the bank's sp_el0 is then the SP_EL0 the guest
\* had at the exit, not the host's.
C12_GuestSpStoredFirst ==
    \A c \in Cpus :
        /\ Has(Trace(c), "restore_host_sp_el0") =>
              /\ Has(Trace(c), "store")
              /\ Pos(Trace(c), "store") < Pos(Trace(c), "restore_host_sp_el0")
        /\ Has(Trace(c), "store") =>
              /\ Bank(c).sp_el0 = hist[c].guest_sp_el0
              /\ Bank(c).sp_el0 # hist[c].sp_el0_at_call
        /\ (RunOver(c) /\ Has(Trace(c), "vmexit")) => Has(Trace(c), "store")

\* C12 witness: a run() has returned, the bank holds the guest's SP_EL0 and
\* the hardware the host's.
C12_Witness ==
    \E c \in Cpus :
        /\ RunReturned(c)
        /\ rret[c].tag = "Ok"
        /\ Bank(c).sp_el0 = ctx.sp_el0
        /\ sysreg[c].sp_el0 = HostRegs(c, Zero64, Zero64).sp_el0
        /\ Bank(c).sp_el0 # sysreg[c].sp_el0

\* C13: when run() enters the guest it has, once each and in this order,
\* saved the host's SP_EL0 to the per-CPU cell, restored the bank and passed
\* the fence; the guest runs with the bank's registers in the hardware.
C13_EntryOrder ==
    \A c \in Cpus :
        /\ Has(Trace(c), "run_guest") =>
              /\ Times(Trace(c), "save_host_sp_el0") = 1
              /\ Times(Trace(c), "restore") = 1
              /\ Times(Trace(c), "fence") = 1
              /\ Pos(Trace(c), "save_host_sp_el0") < Pos(Trace(c), "restore")
              /\ Pos(Trace(c), "restore") < Pos(Trace(c), "fence")
              /\ Pos(Trace(c), "fence") < Pos(Trace(c), "run_guest")
        /\ InGuest(c) =>
              /\ HOST_SP_EL0[c] = hist[c].sp_el0_at_call
              /\ \A r \in BankRegs \ {"sp_el0"} : sysreg[c][r] = Bank(c)[r]

\* C13 witness: a guest is running after exactly the steps of the entry.
C13_Witness ==
    \E c \in Cpus :
        /\ InGuest(c)
        /\ Trace(c) = <<"save_host_sp_el0", "cptr_el2", "restore", "fence",
                        "run_guest">>
        /\ HOST_SP_EL0[c] = HostRegs(c, Zero64, Zero64).sp_el0

\* C14 as stated: after run() returns, the hardware holds the host's value of
\* every register of the bank, not only of SP_EL0.
C14_Original ==
    \A c \in Cpus :
        RunReturned(c) =>
            \A r \in BankRegs : sysreg[c][r] = hist[c].regs_at_call[r]

\* C14: after run() returns, the hardware holds the host's SP_EL0 again, and
\* every other register of the bank holds the guest's value, the one the
\* bank in memory holds.
C14_OnlySpEl0Returned ==
    \A c \in Cpus :
        RunReturned(c) =>
            /\ sysreg[c].sp_el0 = hist[c].regs_at_call.sp_el0
            /\ \A r \in BankRegs \ {"sp_el0"} : sysreg[c][r] = Bank(c)[r]

\* C14 witness: after a first run() the hardware holds the host's SP_EL0 and
\* the guest's HCR_EL2 and VTTBR_EL2.
C14_Witness ==
    \E c \in Cpus :
        /\ RunReturned(c)
        /\ hist[c].runs = 1
        /\ sysreg[c].sp_el0 = HostRegs(c, Zero64, Zero64).sp_el0
        /\ sysreg[c].hcr_el2 = W(0, 0, \h8000, 1)
        /\ sysreg[c].hcr_el2 # hist[c].regs_at_call.hcr_el2
        /\ sysreg[c].vttbr_el2 = EptRoot(c)

\* C16: host_stack_top lies 34 * 8 bytes above the vCPU's base, and the sp
\* that vmexit_trampoline loads at the exit is the sp that run_guest stored
\* at the entry of the same run(): run() goes on with the stack pointer and
\* the callee-saved registers it had when it called run_guest.
C16_Mailbox ==
    /\ offset_of_host_stack_top = 34 * 8
    /\ \A c \in Cpus :
        /\ vcpu_load(c, ctx, vcpu[c],
                     Add64(VcpuBase(c), FromNat(34 * 8)).val)
               = vcpu[c].host_stack_top
        /\ InGuest(c) => vcpu[c].host_stack_top = hist[c].stored_sp
        /\ Has(Trace(c), "vmexit") =>
              /\ hist[c].loaded_sp = hist[c].stored_sp
              /\ core[c].sp = hist[c].sp_at_entry
              /\ core[c].callee = hist[c].callee_at_entry
              /\ stack[c] = <<>>

\* C16 witness: a second run() has left its guest and runs on the host's
\* stack with the host's callee-saved registers.
C16_Witness ==
    \E c \in Cpus :
        /\ hist[c].runs = 2
        /\ Has(Trace(c), "vmexit")
        /\ hist[c].loaded_sp = Sub64(HostSp(c), FromNat(96))
        /\ core[c].sp = HostSp(c)
        /\ core[c].callee = HostCallee(c)

\* The trap kind the vector stub handed to run() on CPU c.
ExitReason(c) == core[c].x0

C18_SwapsAlternate ==
    \A c \in Cpus :
        /\ \A i \in 1..Len(hist[c].swaps) :
              hist[c].swaps[i] = IF i % 2 = 1 THEN "restore" ELSE "store"
        /\ Has(Trace(c), "run_guest") =>
              /\ Times(Trace(c), "restore") = 1
              /\ Pos(Trace(c), "restore") < Pos(Trace(c), "run_guest")
        /\ InGuest(c) => Len(hist[c].swaps) = 2 * hist[c].runs - 1
        /\ Has(Trace(c), "dispatch") =>
              /\ Times(Trace(c), "store") = 1
              /\ Pos(Trace(c), "vmexit") < Pos(Trace(c), "store")
              /\ Pos(Trace(c), "store") < Pos(Trace(c), "dispatch")
              /\ Len(hist[c].swaps) = 2 * hist[c].runs

\* C18 witness: two run() calls of a vCPU swapped the bank four times.
C18_Witness ==
    \E c \in Cpus :
        /\ RunReturned(c)
        /\ hist[c].runs = 2
        /\ hist[c].swaps = <<"restore", "store", "restore", "store">>

\* C20: with run() on two CPUs in any interleaving, the SP_EL0 of a CPU after
\* its run() returns is its SP_EL0 at the call; a CPU's run() reaches only
\* that CPU's HOST_SP_EL0 cell, writes it only as its first step and reads it
\* only after the exit; no other CPU changes the cell in between.
C20_HostSpPerCpu ==
    \A c \in Cpus :
        /\ RunReturned(c) => sysreg[c].sp_el0 = hist[c].sp_el0_at_call
        /\ \A a \in hist[c].cells :
              /\ a.cell = c
              /\ a.access = "write" => a.before = <<>>
              /\ a.access = "read" => Has(a.before, "vmexit")
        /\ (Has(Trace(c), "save_host_sp_el0") /\ ~RunOver(c)) =>
              HOST_SP_EL0[c] = hist[c].sp_el0_at_call

\* C20 witness: CPU 0 is back from its second run() with its own SP_EL0 while
\* the guest of CPU 1 is running in its first.
C20_Witness ==
    /\ RunReturned(0) /\ hist[0].runs = 2
    /\ sysreg[0].sp_el0 = HostRegs(0, Zero64, Zero64).sp_el0
    /\ InGuest(1) /\ hist[1].runs = 1
    /\ HOST_SP_EL0[1] = HostRegs(1, Zero64, Zero64).sp_el0
    /\ HOST_SP_EL0[0] # HOST_SP_EL0[1]

---------------------------------------------------------------------------
(* The registration latch, under SpecOnce.                                 *)

\* C15: whatever the callers and their interleaving,
\* register_lower_aarch64_synchronous_handler runs at most once, it has run
\* exactly once when a call of
\* do_register_lower_aarch64_synchronous_handler returns, and every call
\* returns Ok.
C15_RegisteredOnce ==
    /\ registered <= 1
    /\ \A c \in Callers :
        /\ (oret[c] # <<>> \/ opc[c] = "return") => registered = 1
        /\ \A i \in 1..Len(oret[c]) : oret[c][i] = Ok("()")

\* C15 witness: every caller has returned from all its calls, and the handler
\* was registered once.
C15_Witness ==
    /\ \A c \in Callers : Len(oret[c]) = MaxOnceCalls /\ opc[c] = "idle"
    /\ registered = 1
    /\ INIT = "Complete"

====
